---- MODULE Spec2Model ----
(***************************************************************************)
(* Model of retweetNetworkForTVshow.py: the module-level directed graph    *)
(* `network`, its two upsert operations add_user and add_relation, and the *)
(* scan query_tweets that drives them from the tweet store.                *)
(*                                                                         *)
(* An optional value (a dict key that may be missing, a None) is a set of  *)
(* at most one element: {} is "absent", {v} is "present with value v".     *)
(* A str of edge kinds is the sequence of its characters.                  *)
(***************************************************************************)
EXTENDS Integers, Sequences, FiniteSets, TLC

(* ------------------------------ bounds -------------------------------- *)
\* user ids are 1..MaxUser
MaxUser == 2
\* clock readings are 1..MaxTime
MaxTime == 2
\* direct add_user / add_relation calls in one run
MaxCalls == 4
\* tweets the cursor of line 91 yields in one run
MaxTweets == 2
\* entries in a tweet's top-level user_mentions list
MaxMentions == 2
\* entries in an embedded tweet's user_mentions list
MaxEmbedded == 1
\* optional fields (retweeted_status, quoted_status, user_mentions,
\* in_reply_to_user_id) one tweet carries
MaxFields == 2

\* direct calls in one of the longer runs, which reach two edges of two
\* kinds each
DeepCalls == MaxCalls + 2

Users == 1..MaxUser
Times == 1..MaxTime
OptTimes == {{}} \cup {{t} : t \in Times}

(* ----------------------------- constants ------------------------------ *)
\* line 45: the list the edge_type assertion accepts
Kinds == {"R", "M", "Q", "C"}
\* what a caller may pass as edge_type; "X" is not a recognized kind
KindInputs == Kinds \cup {"X"}

NoError == ""
ErrUser == "User id does not exist!"
ErrKind == "Edge type must be R(etweet) or M(ention) or Q(uote)"
ErrType == "Edge must have at least one type!"
ErrHashtag == "Hashtag shouldn't be empty!"

(* ------------------------------ helpers ------------------------------- *)
\* the value of a present optional
Val(opt) == CHOOSE v \in opt : TRUE

\* c in s, for a one-character c and a str s
InStr(c, s) == \E i \in DOMAIN s : s[i] = c

\* the characters of a str, as a set
Chars(s) == {s[i] : i \in DOMAIN s}

Min(S) == CHOOSE x \in S : \A y \in S : x <= y

\* nx.DiGraph(): no node, no edge
EmptyGraph == [node |-> <<>>, adj |-> <<>>]

Nodes(net) == DOMAIN net.node
Edges(net) == DOMAIN net.adj
has_edge(net, start, end) == <<start, end>> \in Edges(net)

(* ------------------------------ add_user ------------------------------ *)
\* a plausible slip: keeps the latest timestamp
add_user_latest(net, user_id, timestamp) ==
    LET node1 == IF user_id \in Nodes(net) THEN net.node
                 ELSE net.node @@ (user_id :> {})
    IN  IF timestamp = {} THEN [net EXCEPT !.node = node1]
        ELSE IF node1[user_id] = {} \/ Val(timestamp) > Val(node1[user_id])
             THEN [net EXCEPT !.node = [node1 EXCEPT ![user_id] = timestamp]]
             ELSE [net EXCEPT !.node = node1]

\* a plausible slip: a call without timestamp clears the adoption time
add_user_overwrite(net, user_id, timestamp) ==
    LET node1 == IF user_id \in Nodes(net) THEN net.node
                 ELSE net.node @@ (user_id :> {})
    IN  IF timestamp = {} THEN [net EXCEPT !.node = [node1 EXCEPT ![user_id] = {}]]
        ELSE IF node1[user_id] = {} \/ Val(timestamp) < Val(node1[user_id])
             THEN [net EXCEPT !.node = [node1 EXCEPT ![user_id] = timestamp]]
             ELSE [net EXCEPT !.node = node1]

\* lines 29-40; `timestamp` is optional ({} is None)
add_user(net, user_id, timestamp) ==
    LET node1 == IF user_id \in Nodes(net) THEN net.node
                 ELSE net.node @@ (user_id :> {})
    IN  IF timestamp = {} THEN [net EXCEPT !.node = node1]
        ELSE IF node1[user_id] = {} \/ Val(timestamp) < Val(node1[user_id])
             THEN [net EXCEPT !.node = [node1 EXCEPT ![user_id] = timestamp]]
             ELSE [net EXCEPT !.node = node1]

(* ---------------------------- add_relation ----------------------------- *)
\* line 57: networkx add_edge also adds a missing endpoint as a bare node
add_edge(net, start, end, attrs) ==
    LET n1 == IF start \in Nodes(net) THEN net.node ELSE net.node @@ (start :> {})
        n2 == IF end \in DOMAIN n1 THEN n1 ELSE n1 @@ (end :> {})
    IN  [node |-> n2, adj |-> net.adj @@ (<<start, end>> :> attrs)]

\* lines 47-55: the branch taken when the edge exists
update_edge(net, start, end, edge_type, timestamp) ==
    LET e  == net.adj[<<start, end>>]
        ct == IF e.creation_time = {} \/ timestamp < Val(e.creation_time)
              THEN {timestamp} ELSE e.creation_time
        ty == IF InStr(edge_type, e.type) THEN e.type
              ELSE Append(e.type, edge_type)
    IN  [net EXCEPT !.adj[<<start, end>>] = [type |-> ty, creation_time |-> ct]]

\* a plausible slip: the endpoint assertion of line 44 is missing
add_relation_unchecked(net, start, end, edge_type, timestamp) ==
    IF edge_type \notin Kinds THEN [raised |-> ErrKind, net |-> net]
    ELSE IF has_edge(net, start, end)
    THEN [raised |-> NoError, net |-> update_edge(net, start, end, edge_type, timestamp)]
    ELSE [raised |-> NoError,
          net |-> add_edge(net, start, end,
                           [type |-> <<edge_type>>, creation_time |-> {timestamp}])]

\* a plausible slip: returns on a known kind before the timestamp is lowered
add_relation_early_return(net, start, end, edge_type, timestamp) ==
    IF ~(start \in Nodes(net) /\ end \in Nodes(net)) THEN [raised |-> ErrUser, net |-> net]
    ELSE IF edge_type \notin Kinds THEN [raised |-> ErrKind, net |-> net]
    ELSE IF has_edge(net, start, end)
    THEN IF InStr(edge_type, net.adj[<<start, end>>].type)
         THEN [raised |-> NoError, net |-> net]
         ELSE [raised |-> NoError,
               net |-> update_edge(net, start, end, edge_type, timestamp)]
    ELSE [raised |-> NoError,
          net |-> add_edge(net, start, end,
                           [type |-> <<edge_type>>, creation_time |-> {timestamp}])]

\* a plausible slip: an existing edge's attributes are replaced, not merged
add_relation_replace(net, start, end, edge_type, timestamp) ==
    IF ~(start \in Nodes(net) /\ end \in Nodes(net)) THEN [raised |-> ErrUser, net |-> net]
    ELSE IF edge_type \notin Kinds THEN [raised |-> ErrKind, net |-> net]
    ELSE IF has_edge(net, start, end)
    THEN [raised |-> NoError,
          net |-> [net EXCEPT !.adj[<<start, end>>] =
                      [type |-> <<edge_type>>, creation_time |-> {timestamp}]]]
    ELSE [raised |-> NoError,
          net |-> add_edge(net, start, end,
                           [type |-> <<edge_type>>, creation_time |-> {timestamp}])]

\* lines 43-57; the result carries the AssertionError message, "" when none
add_relation(net, start, end, edge_type, timestamp) ==
    IF ~(start \in Nodes(net) /\ end \in Nodes(net)) THEN [raised |-> ErrUser, net |-> net]
    ELSE IF edge_type \notin Kinds THEN [raised |-> ErrKind, net |-> net]
    ELSE IF has_edge(net, start, end)
    THEN IF net.adj[<<start, end>>].type = <<>>     \* line 48
         THEN [raised |-> ErrType, net |-> net]
         ELSE [raised |-> NoError,
               net |-> update_edge(net, start, end, edge_type, timestamp)]
    ELSE [raised |-> NoError,
          net |-> add_edge(net, start, end,
                           [type |-> <<edge_type>>, creation_time |-> {timestamp}])]

\* a plausible slip: the counterpart is not added before the edge
interact_unregistered(net, start, end, edge_type, timestamp) ==
    add_relation(net, start, end, edge_type, timestamp)

\* lines 108-109, 118-119, 136-137 and 145-146: the counterpart's node
\* (no timestamp), then the edge
interact(net, start, end, edge_type, timestamp) ==
    add_relation(add_user(net, end, {}), start, end, edge_type, timestamp)

(* --------------------------- the tweet store --------------------------- *)
\* what the command line may pass as hashtag (line 14)
Hashtags == {"", "X"}

\* created_at is text, "%a %b %d %H:%M:%S %z %Y": a clock reading and the
\* zone offset it was taken in; the instants lie in Times
Zones == {0, 1}
CreatedAts == {c \in [clock : 1..MaxTime, zone : Zones] : c.clock - c.zone \in Times}

\* lines 94-97: strptime(...).timestamp() of an aware datetime
ParseCreatedAt(created_at) == created_at.clock - created_at.zone

SeqsUpTo(S, n) == UNION {[1..k -> S] : k \in 0..n}

\* the other fields of a mention entity (screen_name, indices, ...)
Indices == {0, 1}
\* one entry of a top-level user_mentions list; id {} is a null id
MentionEntries ==
    {e \in [id : {{}} \cup {{u} : u \in Users}, indices : Indices] :
        e.id = {} => e.indices = 0}
\* one entry of an embedded tweet's user_mentions list, which is only ever
\* compared with top-level entries (line 134)
EmbeddedEntries == [id : {{u} : u \in Users}, indices : {0}]
\* a retweeted_status / quoted_status sub-record
EmbeddedTweets == [user_id : Users, user_mentions : SeqsUpTo(EmbeddedEntries, MaxEmbedded)]

FieldCount(tw) ==
      (IF tw.retweeted_status = {} THEN 0 ELSE 1)
    + (IF tw.quoted_status = {} THEN 0 ELSE 1)
    + (IF tw.user_mentions = {} THEN 0 ELSE 1)
    + (IF tw.in_reply_to_user_id = {} THEN 0 ELSE 1)

\* the records database.tweets.find(query_string) may yield
Tweets ==
    {tw \in [user_id : Users,
             created_at : CreatedAts,
             retweeted_status : {{}} \cup {{e} : e \in EmbeddedTweets},
             quoted_status : {{}} \cup {{e} : e \in EmbeddedTweets},
             user_mentions : {{}} \cup {{l} : l \in SeqsUpTo(MentionEntries, MaxMentions)},
             in_reply_to_user_id : {{}, {{}}} \cup {{{u}} : u \in Users}] :
        FieldCount(tw) <= MaxFields}

\* `x in lst` for a Python list
InList(x, lst) == \E i \in DOMAIN lst : lst[i] = x

\* line 134
already_counted(mentioned_user, retweet_mentions, quote_mentions) ==
    InList(mentioned_user, retweet_mentions) \/ InList(mentioned_user, quote_mentions)

\* a plausible slip: the exception of int(None) is not caught
process_mention_uncaught(net, author, timestamp, mentioned_user, retweet_mentions, quote_mentions) ==
    IF mentioned_user.id = {}
    THEN [net |-> net, raised |-> "TypeError", errors |-> 0, counted |-> FALSE]
    ELSE IF already_counted(mentioned_user, retweet_mentions, quote_mentions)
    THEN [net |-> net, raised |-> NoError, errors |-> 0, counted |-> FALSE]
    ELSE LET r == interact(net, author, Val(mentioned_user.id), "M", timestamp)
         IN  [net |-> r.net, raised |-> r.raised, errors |-> 0,
              counted |-> r.raised = NoError]

\* lines 127-140, the body of the loop over tweet_mentions: the graph after
\* it, the exception that leaves it, the logging.error records it writes and
\* whether it reaches the find_one calls of lines 139-140
process_mention(net, author, timestamp, mentioned_user, retweet_mentions, quote_mentions) ==
    IF mentioned_user.id = {}
    THEN [net |-> net, raised |-> NoError, errors |-> 1, counted |-> FALSE]
    ELSE IF already_counted(mentioned_user, retweet_mentions, quote_mentions)
    THEN [net |-> net, raised |-> NoError, errors |-> 0, counted |-> FALSE]
    ELSE LET r == interact(net, author, Val(mentioned_user.id), "M", timestamp)
         IN  [net |-> r.net, raised |-> r.raised, errors |-> 0,
              counted |-> r.raised = NoError]

\* a plausible slip: the hashtag is not checked
hashtag_ok_always(h) == TRUE

\* line 82
hashtag_ok(h) == h # ""

\* the interactions a tweet declares, as (target, kind): its retweeted and
\* quoted authors, every top-level mention with an id, its reply target
Declared(tw) ==
       {<<Val(tw.retweeted_status).user_id, "R">> : x \in tw.retweeted_status}
  \cup {<<Val(tw.quoted_status).user_id, "Q">> : x \in tw.quoted_status}
  \cup UNION {{<<Val(l[i].id), "M">> : i \in {j \in DOMAIN l : l[j].id # {}}}
                 : l \in tw.user_mentions}
  \cup UNION {{<<u, "C">> : u \in r} : r \in tw.in_reply_to_user_id}

(* ------------------------------- state -------------------------------- *)
VARIABLES
    hashtag,    \* line 15 / 157: the command-line argument
    network,    \* line 18: the module-level DiGraph
    raised,     \* the message of the AssertionError the last operation raised
    calls,      \* number of direct add_user / add_relation calls made
    passed,     \* history: user -> timestamps passed to add_user for it
    rel,        \* history: (start, end) -> kinds and timestamps of the
                \* add_relation calls on it that returned normally
    pc,         \* where query_tweets is
    accessed,   \* the collections of the store queried so far
    fetched,    \* tweets the cursor has yielded
    tweet,      \* the loop variable of line 91, {} outside an iteration
    original_retweet_mentions,  \* line 100 / 111
    original_quote_mentions,    \* line 101 / 121
    mi,         \* position of the loop of line 126 in tweet_mentions
    logged,     \* logging.error records written (line 131)
    before,     \* history: the graph when the current tweet was fetched
    logged0,    \* history: `logged` when the current tweet was fetched
    authored,   \* history: user -> timestamps of the tweets it authored
    declared    \* history: (author, target) -> the (kind, timestamp) pairs
                \* the fetched tweets declare

direct == <<calls, passed, rel>>
scan == <<pc, accessed, fetched, tweet, original_retweet_mentions,
          original_quote_mentions, mi, logged, before, logged0, authored,
          declared>>
vars == <<hashtag, network, raised, direct, scan>>

Init ==
    /\ hashtag \in Hashtags
    /\ network = EmptyGraph
    /\ raised = NoError
    /\ calls = 0
    /\ passed = [u \in Users |-> {}]
    /\ rel = <<>>
    /\ pc = "idle"
    /\ accessed = {}
    /\ fetched = 0
    /\ tweet = {}
    /\ original_retweet_mentions = <<>>
    /\ original_quote_mentions = <<>>
    /\ mi = 0
    /\ logged = 0
    /\ before = EmptyGraph
    /\ logged0 = 0
    /\ authored = [u \in Users |-> {}]
    /\ declared = [p \in Users \X Users |-> {}]

(* ---------------- direct calls of the two graph operations ------------ *)
CallAddUser(limit) ==
    /\ calls < limit
    /\ \E u \in Users, ts \in OptTimes :
          /\ network' = add_user(network, u, ts)
          /\ passed' = [passed EXCEPT ![u] = @ \cup ts]
    /\ raised' = NoError
    /\ calls' = calls + 1
    /\ UNCHANGED <<hashtag, rel, scan>>

CallAddRelation(limit) ==
    /\ calls < limit
    /\ \E a \in Users, b \in Users, k \in KindInputs, t \in Times :
          LET r == add_relation(network, a, b, k, t)
              old == IF <<a, b>> \in DOMAIN rel THEN rel[<<a, b>>]
                     ELSE [kinds |-> {}, times |-> {}]
              new == [kinds |-> old.kinds \cup {k}, times |-> old.times \cup {t}]
          IN  /\ network' = r.net
              /\ raised' = r.raised
              /\ rel' = IF r.raised # NoError THEN rel
                        ELSE IF <<a, b>> \in DOMAIN rel
                             THEN [rel EXCEPT ![<<a, b>>] = new]
                             ELSE rel @@ (<<a, b>> :> new)
    /\ calls' = calls + 1
    /\ UNCHANGED <<hashtag, passed, scan>>

NextCalls == CallAddUser(MaxCalls) \/ CallAddRelation(MaxCalls)

NextDeepCalls == CallAddUser(DeepCalls) \/ CallAddRelation(DeepCalls)

\* the graph operations driven directly, as a library
InitCalls == Init /\ hashtag = "X"

SpecCalls == InitCalls /\ [][NextCalls]_vars

SpecDeepCalls == InitCalls /\ [][NextDeepCalls]_vars

(* ----------------------------- query_tweets ---------------------------- *)
\* the locals of the iteration in progress
user_id == Val(tweet).user_id
create_at == ParseCreatedAt(Val(tweet).created_at)

\* lines 82-91: the assertion, then the query
QueryTweets ==
    /\ pc = "idle"
    /\ IF hashtag_ok(hashtag)
       THEN /\ raised' = NoError
            /\ pc' = "cursor"
            /\ accessed' = accessed \cup {"tweets"}
       ELSE /\ raised' = ErrHashtag
            /\ pc' = "failed"
            /\ UNCHANGED accessed
    /\ UNCHANGED <<hashtag, network, direct, fetched, tweet,
                   original_retweet_mentions, original_quote_mentions, mi,
                   logged, before, logged0, authored, declared>>

\* lines 91-101: the cursor yields a tweet; its author is added
Fetch ==
    /\ pc = "cursor"
    /\ fetched < MaxTweets
    /\ \E tw \in Tweets :
          /\ tweet' = {tw}
          /\ network' = add_user(network, tw.user_id, {ParseCreatedAt(tw.created_at)})
          /\ authored' = [authored EXCEPT ![tw.user_id] =
                             @ \cup {ParseCreatedAt(tw.created_at)}]
          /\ declared' = [p \in Users \X Users |->
                             IF p[1] = tw.user_id
                             THEN declared[p] \cup
                                  {<<d[2], ParseCreatedAt(tw.created_at)>> :
                                      d \in {x \in Declared(tw) : x[1] = p[2]}}
                             ELSE declared[p]]
    /\ fetched' = fetched + 1
    /\ original_retweet_mentions' = <<>>
    /\ original_quote_mentions' = <<>>
    /\ mi' = 1
    /\ before' = network
    /\ logged0' = logged
    /\ pc' = "retweet"
    /\ UNCHANGED <<hashtag, raised, direct, accessed, logged>>

\* lines 106-111
Retweet ==
    /\ pc = "retweet"
    /\ IF Val(tweet).retweeted_status # {}
       THEN LET rt == Val(Val(tweet).retweeted_status)
                r  == interact(network, user_id, rt.user_id, "R", create_at)
            IN  /\ network' = r.net
                /\ raised' = r.raised
                /\ pc' = IF r.raised = NoError THEN "quote" ELSE "failed"
                /\ original_retweet_mentions' =
                       IF r.raised = NoError THEN rt.user_mentions
                       ELSE original_retweet_mentions
       ELSE /\ pc' = "quote"
            /\ UNCHANGED <<network, raised, original_retweet_mentions>>
    /\ UNCHANGED <<hashtag, direct, accessed, fetched, tweet,
                   original_quote_mentions, mi, logged, before, logged0,
                   authored, declared>>

\* lines 116-121
Quote ==
    /\ pc = "quote"
    /\ IF Val(tweet).quoted_status # {}
       THEN LET qt == Val(Val(tweet).quoted_status)
                r  == interact(network, user_id, qt.user_id, "Q", create_at)
            IN  /\ network' = r.net
                /\ raised' = r.raised
                /\ pc' = IF r.raised = NoError THEN "mentions" ELSE "failed"
                /\ original_quote_mentions' =
                       IF r.raised = NoError THEN qt.user_mentions
                       ELSE original_quote_mentions
       ELSE /\ pc' = "mentions"
            /\ UNCHANGED <<network, raised, original_quote_mentions>>
    /\ UNCHANGED <<hashtag, direct, accessed, fetched, tweet,
                   original_retweet_mentions, mi, logged, before, logged0,
                   authored, declared>>

\* tweet["entities"]["user_mentions"], [] when the key is missing (line 124)
tweet_mentions ==
    IF Val(tweet).user_mentions = {} THEN <<>> ELSE Val(Val(tweet).user_mentions)

\* lines 126-140: one iteration of the loop over tweet_mentions
Mention ==
    /\ pc = "mentions"
    /\ mi <= Len(tweet_mentions)
    /\ LET r == process_mention(network, user_id, create_at, tweet_mentions[mi],
                                original_retweet_mentions, original_quote_mentions)
       IN  /\ network' = r.net
           /\ raised' = r.raised
           /\ logged' = logged + r.errors
           /\ accessed' = IF r.counted THEN accessed \cup {"social_network"}
                          ELSE accessed
           /\ pc' = IF r.raised = NoError THEN "mentions" ELSE "failed"
    /\ mi' = mi + 1
    /\ UNCHANGED <<hashtag, direct, fetched, tweet, original_retweet_mentions,
                   original_quote_mentions, before, logged0, authored, declared>>

\* line 126: the list is exhausted (or line 124: there is none)
MentionsDone ==
    /\ pc = "mentions"
    /\ mi > Len(tweet_mentions)
    /\ pc' = "reply"
    /\ UNCHANGED <<hashtag, network, raised, direct, accessed, fetched, tweet,
                   original_retweet_mentions, original_quote_mentions, mi,
                   logged, before, logged0, authored, declared>>

\* lines 143-146; the iteration ends and its locals are dead
Reply ==
    /\ pc = "reply"
    /\ LET field == Val(tweet).in_reply_to_user_id
       IN  IF field # {} /\ Val(field) # {}
           THEN LET r == interact(network, user_id, Val(Val(field)), "C", create_at)
                IN  /\ network' = r.net
                    /\ raised' = r.raised
                    /\ pc' = IF r.raised = NoError THEN "cursor" ELSE "failed"
           ELSE /\ pc' = "cursor"
                /\ UNCHANGED <<network, raised>>
    /\ tweet' = {}
    /\ original_retweet_mentions' = <<>>
    /\ original_quote_mentions' = <<>>
    /\ mi' = 0
    /\ before' = EmptyGraph
    /\ logged0' = 0
    /\ UNCHANGED <<hashtag, direct, accessed, fetched, logged, authored, declared>>

\* line 148: the cursor is exhausted
Done ==
    /\ pc = "cursor"
    /\ pc' = "done"
    /\ UNCHANGED <<hashtag, network, raised, direct, accessed, fetched, tweet,
                   original_retweet_mentions, original_quote_mentions, mi,
                   logged, before, logged0, authored, declared>>

Next == QueryTweets \/ Fetch \/ Retweet \/ Quote \/ Mention \/ MentionsDone
            \/ Reply \/ Done

Spec == Init /\ [][Next]_vars

(* ====================== properties of the graph operations ============= *)
HasKind(net, start, end, kind) ==
    has_edge(net, start, end) /\ InStr(kind, net.adj[<<start, end>>].type)

\* C1: after any sequence of add_user calls, a user for which at least one
\* timestamp was passed has adoption_time equal to the smallest timestamp
\* passed, whatever the order of the calls, and a user registered only by
\* calls without timestamp has no adoption_time.
AdoptionIsEarliestPassed ==
    \A u \in Users :
        /\ passed[u] # {} =>
              u \in Nodes(network) /\ network.node[u] = {Min(passed[u])}
        /\ (passed[u] = {} /\ u \in Nodes(network)) => network.node[u] = {}

\* a user that was passed several timestamps over at least three calls
AdoptionLoweredReached ==
    \E u \in Users :
        /\ Cardinality(passed[u]) >= 2
        /\ calls >= 3
        /\ network.node[u] = {Min(passed[u])}

\* C2: after any non-empty sequence of add_relation calls on (a, b) that
\* returned normally there is one edge a->b, its type is non-empty and holds
\* exactly the kinds passed, each once, and its creation_time is the smallest
\* timestamp passed; a pair with no such call has no edge.
EdgeAccumulates ==
    \A p \in Users \X Users :
        IF p \in DOMAIN rel
        THEN /\ p \in Edges(network)
             /\ network.adj[p].type # <<>>
             /\ Chars(network.adj[p].type) = rel[p].kinds
             /\ rel[p].kinds \subseteq Kinds
             /\ Len(network.adj[p].type) = Cardinality(rel[p].kinds)
             /\ network.adj[p].creation_time = {Min(rel[p].times)}
        ELSE p \notin Edges(network)

\* a self-loop that was passed several kinds and several timestamps
SelfLoopAccumulatedReached ==
    \E u \in Users :
        /\ <<u, u>> \in DOMAIN rel
        /\ Cardinality(rel[<<u, u>>].kinds) >= 2
        /\ Cardinality(rel[<<u, u>>].times) >= 2
        /\ Len(network.adj[<<u, u>>].type) >= 2

\* C3: the stored type of an edge does not depend on the order in which its
\* kinds were passed: two edges that were passed the same set of kinds store
\* the same type.
TypeIsOrderFree ==
    \A p \in Edges(network), q \in Edges(network) :
        (p \in DOMAIN rel /\ q \in DOMAIN rel /\ rel[p].kinds = rel[q].kinds)
            => network.adj[p].type = network.adj[q].type

\* C4: add_relation with an endpoint that is no node raises "User id does
\* not exist!" and returns the graph as it was; a call that raised it changed
\* no node, no edge and no attribute.
MissingEndpointFails ==
    /\ [](\A a \in Users, b \in Users, k \in KindInputs, t \in Times :
             (a \notin Nodes(network) \/ b \notin Nodes(network)) =>
                 add_relation(network, a, b, k, t)
                     = [raised |-> ErrUser, net |-> network])
    /\ [][raised' = ErrUser => (network' = network /\ rel' = rel)]_vars

\* a call failed on a graph that has one node and an edge
MissingEndpointReached ==
    /\ raised = ErrUser
    /\ Cardinality(Nodes(network)) = 1
    /\ Edges(network) # {}

\* C9: no step removes a node or an edge, shortens an edge's type, raises an
\* edge's creation_time, or unsets or raises a node's adoption_time.
Monotone ==
    [][ /\ Nodes(network) \subseteq Nodes(network')
        /\ Edges(network) \subseteq Edges(network')
        /\ \A p \in Edges(network) :
              /\ Len(network'.adj[p].type) >= Len(network.adj[p].type)
              /\ Chars(network.adj[p].type) \subseteq Chars(network'.adj[p].type)
              /\ network'.adj[p].creation_time # {}
              /\ Val(network'.adj[p].creation_time)
                     <= Val(network.adj[p].creation_time)
        /\ \A u \in Nodes(network) :
              network.node[u] # {} =>
                  /\ network'.node[u] # {}
                  /\ Val(network'.node[u]) <= Val(network.node[u]) ]_vars

\* an adoption_time and a creation_time were lowered and a type has grown
TightenedReached ==
    /\ \E u \in Users : Cardinality(passed[u]) >= 2
    /\ \E p \in Edges(network) :
          /\ Len(network.adj[p].type) >= 2
          /\ Cardinality(rel[p].times) >= 2

(* ========================= properties of the scan ====================== *)
\* the mention list of an optional embedded tweet, [] when there is none
EmbeddedMentions(status) ==
    IF status = {} THEN <<>> ELSE Val(status).user_mentions

\* x is mentioned, by id, in the tweet embedded as retweeted_status or as
\* quoted_status
MentionedInEmbedded(tw, x) ==
    \/ \E i \in DOMAIN EmbeddedMentions(tw.retweeted_status) :
          EmbeddedMentions(tw.retweeted_status)[i].id = {x}
    \/ \E i \in DOMAIN EmbeddedMentions(tw.quoted_status) :
          EmbeddedMentions(tw.quoted_status)[i].id = {x}

\* the entry is, field for field, an entry of an embedded tweet's list
Verbatim(tw, entry) ==
    \/ InList(entry, EmbeddedMentions(tw.retweeted_status))
    \/ InList(entry, EmbeddedMentions(tw.quoted_status))

\* C5: when the tweet embeds a retweeted or quoted tweet that mentions user
\* x and its own top-level list mentions x too, processing it adds no
\* Mention kind to the edge from its author to x.
PropagatedMentionAddsNoEdge ==
    pc = "reply" =>
        \A x \in Users :
            (/\ MentionedInEmbedded(Val(tweet), x)
             /\ \E i \in DOMAIN tweet_mentions : tweet_mentions[i].id = {x})
                => (HasKind(network, user_id, x, "M")
                        => HasKind(before, user_id, x, "M"))

\* what the scan does do (C5): a user all of whose top-level entries are
\* verbatim entries of an embedded tweet's list gains no Mention kind.
VerbatimMentionAddsNoEdge ==
    pc = "reply" =>
        \A x \in Users :
            (/\ \E i \in DOMAIN tweet_mentions : tweet_mentions[i].id = {x}
             /\ \A i \in DOMAIN tweet_mentions :
                   tweet_mentions[i].id = {x} => Verbatim(Val(tweet), tweet_mentions[i]))
                => (HasKind(network, user_id, x, "M")
                        => HasKind(before, user_id, x, "M"))

\* C6: entries with a null id are each logged once and skipped, every
\* other entry that is no verbatim entry of an embedded tweet still gets its
\* Mention edge, and the scan is not aborted: it reaches the reply branch
\* with the whole list processed, and fails only on an empty hashtag.
MalformedMentionSkipped ==
    /\ pc = "failed" => raised = ErrHashtag
    /\ pc \in {"mentions", "reply"} =>
          /\ raised = NoError
          /\ logged = logged0
                 + Cardinality({i \in 1..(mi - 1) : tweet_mentions[i].id = {}})
          /\ \A i \in 1..(mi - 1) :
                (/\ tweet_mentions[i].id # {}
                 /\ ~Verbatim(Val(tweet), tweet_mentions[i]))
                    => HasKind(network, user_id, Val(tweet_mentions[i].id), "M")
          /\ pc = "reply" => mi = Len(tweet_mentions) + 1

\* the second tweet, like the first, held one null id and one valid id, and
\* the scan is at its reply branch, a reply target to come
MalformedSkippedReached ==
    /\ pc = "reply"
    /\ fetched = 2
    /\ logged0 = 1
    /\ logged = 2
    /\ Len(tweet_mentions) = 2
    /\ \E i \in 1..2 : tweet_mentions[i].id = {}
    /\ \E i \in 1..2 :
          /\ tweet_mentions[i].id # {}
          /\ HasKind(network, user_id, Val(tweet_mentions[i].id), "M")
          /\ ~HasKind(before, user_id, Val(tweet_mentions[i].id), "M")
    /\ \E u \in Users : Val(tweet).in_reply_to_user_id = {{u}}

\* C7: with an empty hashtag query_tweets fails on its assertion before the
\* store is touched: no collection is queried, no tweet is fetched and the
\* graph is as it was.
EmptyHashtagFailsFirst ==
    hashtag = "" =>
        /\ pc \in {"idle", "failed"}
        /\ (pc = "failed" => raised = ErrHashtag)
        /\ accessed = {}
        /\ fetched = 0
        /\ network = EmptyGraph

\* the scan was started with an empty hashtag and has failed
EmptyHashtagReached ==
    /\ hashtag = ""
    /\ pc = "failed"
    /\ raised = ErrHashtag

KindsOf(D) == {d[1] : d \in D}
TimesOf(D) == {d[2] : d \in D}

\* C8: a user that authored fetched tweets has adoption_time equal to the
\* smallest of their timestamps, and a user that authored none has no
\* adoption_time; between tweets the nodes are the authors and the edges'
\* targets, an edge exists only where an interaction was declared, and where
\* no mention was declared the edge holds exactly the declared kinds and the
\* smallest declared timestamp (so one plain tweet and one retweet of its
\* author give two stamped nodes and one Retweet edge, in either order).
AdoptionIsEarliestAuthored ==
    /\ \A u \in Users :
          /\ authored[u] # {} =>
                u \in Nodes(network) /\ network.node[u] = {Min(authored[u])}
          /\ (authored[u] = {} /\ u \in Nodes(network)) => network.node[u] = {}
    /\ pc \in {"cursor", "done"} =>
          /\ Nodes(network) = {u \in Users : authored[u] # {}}
                                 \cup {p[2] : p \in Edges(network)}
          /\ \A p \in Users \X Users :
                LET D    == declared[p]
                    sure == {d \in D : d[1] # "M"}
                IN  /\ D = {} => p \notin Edges(network)
                    /\ sure # {} => p \in Edges(network)
                    /\ p \in Edges(network) =>
                          /\ KindsOf(sure) \subseteq Chars(network.adj[p].type)
                          /\ Chars(network.adj[p].type) \subseteq KindsOf(D)
                          /\ network.adj[p].creation_time \subseteq TimesOf(D)
                    /\ (D # {} /\ D = sure) =>
                          /\ Chars(network.adj[p].type) = KindsOf(D)
                          /\ network.adj[p].creation_time = {Min(TimesOf(D))}

\* user 1 tweeted at 1 with no interaction and user 2 retweeted user 1 at 2
TwoRecordScenarioReached ==
    /\ pc = "done"
    /\ fetched = 2
    /\ authored = (1 :> {1}) @@ (2 :> {2})
    /\ declared = [p \in Users \X Users |->
                      IF p = <<2, 1>> THEN {<<"R", 2>>} ELSE {}]
    /\ network = [node |-> (1 :> {1}) @@ (2 :> {2}),
                  adj  |-> (<<2, 1>> :> [type |-> <<"R">>, creation_time |-> {2}])]

\* C10: during the scan add_relation never raises "User id does not
\* exist!", every edge joins two nodes, and the source of every edge has an
\* adoption_time no later than the edge's creation_time.
EdgesAreAnchored ==
    /\ raised # ErrUser
    /\ \A p \in Edges(network) :
          /\ p[1] \in Nodes(network)
          /\ p[2] \in Nodes(network)
          /\ network.node[p[1]] # {}
          /\ network.adj[p].creation_time # {}
          /\ Val(network.node[p[1]]) <= Val(network.adj[p].creation_time)

\* an edge created after its source's adoption, to a node never stamped
LaterEdgeReached ==
    \E p \in Edges(network) :
        /\ Val(network.node[p[1]]) < Val(network.adj[p].creation_time)
        /\ network.node[p[2]] = {}
====
